---------------------------- MODULE Spec2Model ----------------------------
(***************************************************************************)
(* A model of streamlit_app.py, the Susenas questionnaire viewer.          *)
(*                                                                         *)
(* Python values are encoded as follows.                                   *)
(*   - An optional value (a dict entry that may be missing or None, a SQL  *)
(*     column that may be NULL) is a sequence of length at most one: None  *)
(*     is << >> and the value v is << v >>.                                *)
(*   - A string that is compared or scanned character by character is a    *)
(*     sequence of one-character strings, "B6R8" is << "B","6","R","8" >>. *)
(*     Characters are ordered by their code point (CharCode).              *)
(***************************************************************************)
EXTENDS Integers, Sequences, FiniteSets, TLC

VARIABLES
    pc,              \* position of the run: which step was taken last
    komoditi_rows,   \* <module>: the commodity lines loaded from storage
    makanan,         \* split_komoditi: food bucket
    individu,        \* split_komoditi: individual-food bucket (sorted)
    non_makanan,     \* split_komoditi: non-food bucket
    idart_map,       \* build_idart_map: IDART -> person number
    individu_table,  \* render_komoditi_individu: the rows of the table shown
    rekap,           \* parse_blok_data: the flat record, fields in dict order
    blok_tables,     \* parse_blok_data: blok -> rows (a dict: order and cells)
    assigned,        \* parse_blok_data: the cell assignments its loop made
    blok_name,       \* render_blok_rekap_table: the blok being rendered
    sorted_row_nums, \* render_blok_rekap_table: the row keys in display order
    val,             \* fmt_currency, fmt_number, val_or_dash: the argument
    shown,           \* the formatter called and what the call came to
    storage,         \* the rows of table rekap, in rowid order
    selected_kab,    \* <module>: the Kab chosen in the first dropdown
    nks_list,        \* <module>: the options of the NKS dropdown
    selected_nks,    \* <module>: the NKS chosen
    nurt_list,       \* <module>: the options of the No. Urut dropdown
    selected_nurt,   \* <module>: the Nurt chosen
    view             \* <module>: what the page ends up showing

komoditiVars == << komoditi_rows, makanan, individu, non_makanan, idart_map,
                  individu_table >>

blokVars == << rekap, blok_tables, assigned, blok_name, sorted_row_nums >>

fmtVars == << val, shown >>

viewVars == << storage, selected_kab, nks_list, selected_nks, nurt_list,
              selected_nurt, view >>

vars == << pc, komoditiVars, blokVars, fmtVars, viewVars >>

-----------------------------------------------------------------------------
(* Optional values and strings                                             *)

None == << >>

Some(v) == << v >>

\* Python's `x or d` for an optional number or string: None and the falsy
\* value (0, "") both give d.
OrDefault(x, falsy, d) == IF x = None \/ x[1] = falsy THEN d ELSE x[1]

\* The variables of a part of the program that a run does not exercise.
IdleKomoditi ==
    /\ komoditi_rows = << >>
    /\ makanan = << >>
    /\ individu = << >>
    /\ non_makanan = << >>
    /\ idart_map = << >>
    /\ individu_table = << >>

IdleBlok ==
    /\ rekap = << >>
    /\ blok_tables = << >>
    /\ assigned = { }
    /\ blok_name = << >>
    /\ sorted_row_nums = << >>

IdleFmt ==
    /\ val = << >>
    /\ shown = << >>

IdleView ==
    /\ storage = << >>
    /\ selected_kab = << >>
    /\ nks_list = << >>
    /\ selected_nks = << >>
    /\ nurt_list = << >>
    /\ selected_nurt = << >>
    /\ view = ""

-----------------------------------------------------------------------------
(* Bounds                                                                  *)

MaxLines == 3

MaxFields == 3

MaxRowFields == 4

MaxRecords == 2


-----------------------------------------------------------------------------
(* Komoditi split logic: has_any_value, split_komoditi, build_idart_map    *)

NumKolom == 14

IndividuFrom == 186

NonMakananFrom == 226

\* Code point of the characters that occur in the strings of the model.
CharCode(c) ==
    CASE c = "0" -> 48 [] c = "1" -> 49 [] c = "2" -> 50 [] c = "3" -> 51
      [] c = "4" -> 52 [] c = "5" -> 53 [] c = "6" -> 54 [] c = "7" -> 55
      [] c = "8" -> 56 [] c = "9" -> 57
      [] c = "A" -> 65 [] c = "B" -> 66 [] c = "C" -> 67 [] c = "D" -> 68
      [] c = "E" -> 69 [] c = "F" -> 70 [] c = "G" -> 71 [] c = "J" -> 74
      [] c = "K" -> 75 [] c = "R" -> 82 [] c = "X" -> 88 [] c = "Z" -> 90
      [] OTHER -> 0

\* Python's s < t on strings: lexicographic by code point, a proper prefix first.
RECURSIVE StrLess(_, _)
StrLess(s, t) ==
    IF t = << >> THEN FALSE
    ELSE IF s = << >> THEN TRUE
    ELSE IF CharCode(Head(s)) # CharCode(Head(t))
         THEN CharCode(Head(s)) < CharCode(Head(t))
    ELSE StrLess(Tail(s), Tail(t))

\* sorted()/list.sort(): a stable sort. `less` holds the pairs of indices
\* << i, j >> with key(s[i]) < key(s[j]). The element at index i lands after
\* every element that is smaller and after every earlier element that is not
\* greater, so equal elements keep their input order.
StableSort(s, less) ==
    LET n == Len(s)
        pos(i) == 1 + Cardinality({ j \in 1 .. n :
                          \/ << j, i >> \in less
                          \/ << i, j >> \notin less /\ j < i })
    IN  [ k \in 1 .. n |-> s[CHOOSE i \in 1 .. n : pos(i) = k] ]

Range(s) == { s[i] : i \in DOMAIN s }

\* A plausible slip: range(1, 14) leaves Kolom14 out.
has_any_value_short(item) ==
    \E i \in 1 .. (NumKolom - 1) : item.Kolom[i] # None

has_any_value(item) ==
    \E i \in 1 .. NumKolom : item.Kolom[i] # None

\* k.get("NoUrutKomoditiFK") or 0
NoUrutOrZero(k) == OrDefault(k.NoUrutKomoditiFK, 0, 0)

\* A slip: the sort key without the IDART, the sequence number alone.
IndividuKeyLess_by_sequence(x, y) == NoUrutOrZero(x) < NoUrutOrZero(y)

\* x.get("IDART") or ""
IdartOrEmpty(k) == OrDefault(k.IDART, << >>, << >>)

\* The sort key (IDART or "", NoUrutKomoditiFK or 0), compared as a tuple.
IndividuKeyLess(x, y) ==
    \/ StrLess(IdartOrEmpty(x), IdartOrEmpty(y))
    \/ /\ IdartOrEmpty(x) = IdartOrEmpty(y)
       /\ NoUrutOrZero(x) < NoUrutOrZero(y)

IsMakanan(k) == NoUrutOrZero(k) < IndividuFrom

IsIndividu(k) == IndividuFrom <= NoUrutOrZero(k) /\ NoUrutOrZero(k) < NonMakananFrom

IsNonMakanan(k) == NoUrutOrZero(k) >= NonMakananFrom

\* split_komoditi's three results, in the order it returns them.
split_komoditi(rows) ==
    LET valid == SelectSeq(rows, has_any_value)
        ind == SelectSeq(valid, IsIndividu)
    IN  [ makanan     |-> SelectSeq(valid, IsMakanan),
          individu    |-> StableSort(ind, { q \in (DOMAIN ind) \X (DOMAIN ind) :
                                              IndividuKeyLess(ind[q[1]], ind[q[2]]) }),
          non_makanan |-> SelectSeq(valid, IsNonMakanan) ]

\* The loop of build_idart_map: the list `seen` after the items of s.
RECURSIVE SeenAfter(_, _)
SeenAfter(seen, s) ==
    IF s = << >> THEN seen
    ELSE LET idart == Head(s).IDART
             truthy == idart # None /\ idart[1] # << >>
         IN  SeenAfter(IF truthy /\ idart[1] \notin Range(seen)
                       THEN Append(seen, idart[1]) ELSE seen,
                       Tail(s))

\* The same loop without the `not in seen` test: a repeated id is appended again.
RECURSIVE SeenAfterNoDedup(_, _)
SeenAfterNoDedup(seen, s) ==
    IF s = << >> THEN seen
    ELSE LET idart == Head(s).IDART
             truthy == idart # None /\ idart[1] # << >>
         IN  SeenAfterNoDedup(IF truthy THEN Append(seen, idart[1]) ELSE seen,
                              Tail(s))

\* {idart: idx + 1 for idx, idart in enumerate(seen)}: a later index of the
\* same key replaces an earlier one.
EnumerateMap(seen) ==
    [ id \in Range(seen) |->
        CHOOSE i \in DOMAIN seen :
            seen[i] = id /\ \A j \in DOMAIN seen : seen[j] = id => j <= i ]

build_idart_map_nodedup(ind) == EnumerateMap(SeenAfterNoDedup(<< >>, ind))

build_idart_map(ind) == EnumerateMap(SeenAfter(<< >>, ind))

\* The "ART" cell of a table row: a person number, or the placeholder "-".
Numbered(n) == [ text |-> "", number |-> n ]

Placeholder == [ text |-> "-", number |-> 0 ]

\* idart_map.get(item.get("IDART"), "-")
ArtCell(map, item) ==
    IF item.IDART # None /\ item.IDART[1] \in DOMAIN map
    THEN Numbered(map[item.IDART[1]])
    ELSE Placeholder

\* The rows render_komoditi_individu appends, one per item in list order:
\* the columns "No Urut" and "ART" (the other columns format a value slot
\* each and order nothing).
IndividuRows(ind, map) ==
    [ i \in DOMAIN ind |->
        [ NoUrut |-> ind[i].NoUrutKomoditiFK, ART |-> ArtCell(map, ind[i]) ] ]

\* The lines the model draws a commodity list from. Person ids are "", "A"
\* and "B" on the individual-food sequence numbers; value slots are all absent,
\* or absent but for Kolom14 = 0.
KolomNone == [ i \in 1 .. NumKolom |-> None ]

KolomLast == [ i \in 1 .. NumKolom |-> IF i = NumKolom THEN Some(0) ELSE None ]

KolomSamples == { KolomNone, KolomLast }

IdartSamples == { None, Some(<< >>), Some(<< "A" >>), Some(<< "B" >>) }

LineSamples ==
    { [ NoUrutKomoditiFK |-> n, IDART |-> a, Kolom |-> k ] :
        n \in { Some(IndividuFrom), Some(NonMakananFrom - 1) },
        a \in IdartSamples, k \in KolomSamples }
    \cup
    { [ NoUrutKomoditiFK |-> n, IDART |-> None, Kolom |-> k ] :
        n \in { None, Some(IndividuFrom - 1), Some(NonMakananFrom) },
        k \in KolomSamples }

SeqsUpTo(S, n) == UNION { [ 1 .. m -> S ] : m \in 0 .. n }

InitKomoditi ==
    /\ pc = "loaded"
    /\ komoditi_rows \in SeqsUpTo(LineSamples, MaxLines)
    /\ makanan = << >>
    /\ individu = << >>
    /\ non_makanan = << >>
    /\ idart_map = << >>
    /\ individu_table = << >>
    /\ IdleBlok
    /\ IdleFmt
    /\ IdleView

\* makanan, individu, non_makanan = split_komoditi(komoditi)
SplitKomoditi ==
    /\ pc = "loaded"
    /\ LET r == split_komoditi(komoditi_rows)
       IN  /\ makanan' = r.makanan
           /\ individu' = r.individu
           /\ non_makanan' = r.non_makanan
    /\ pc' = "split"
    /\ UNCHANGED << komoditi_rows, idart_map, individu_table, blokVars, fmtVars, viewVars >>

\* render_komoditi_individu: idart_map = build_idart_map(individu), then one
\* table row per item of individu.
BuildIdartMap ==
    /\ pc = "split"
    /\ individu # << >>
    /\ idart_map' = build_idart_map(individu)
    /\ individu_table' = IndividuRows(individu, idart_map')
    /\ pc' = "mapped"
    /\ UNCHANGED << komoditi_rows, makanan, individu, non_makanan, blokVars, fmtVars, viewVars >>

NextKomoditi == SplitKomoditi \/ BuildIdartMap

SpecKomoditi == InitKomoditi /\ [][NextKomoditi]_vars

-----------------------------------------------------------------------------
(* Properties of the commodity split                                       *)

\* Positions of the input lines with at least one non-absent value slot.
ValidPositions ==
    { i \in DOMAIN komoditi_rows :
        \E c \in 1 .. 14 : komoditi_rows[i].Kolom[c] # None }

\* A line's sequence number, absent read as 0.
SeqNumber(k) == IF k.NoUrutKomoditiFK = None THEN 0 ELSE k.NoUrutKomoditiFK[1]

\* C2: the three buckets of split_komoditi are pairwise disjoint, together
\* they hold exactly the input lines with a non-absent value among
\* Kolom1..Kolom14 (each as often as the input does), and the bucket of a line
\* follows from its sequence number alone, absent read as 0: below 186 food,
\* 186..225 individual-food, 226 and above non-food.
C2_SplitPartition ==
    pc \in { "split", "mapped" } =>
        /\ Range(makanan) \cap Range(individu) = { }
        /\ Range(makanan) \cap Range(non_makanan) = { }
        /\ Range(individu) \cap Range(non_makanan) = { }
        /\ Range(makanan) \cup Range(individu) \cup Range(non_makanan)
             = { komoditi_rows[i] : i \in ValidPositions }
        /\ Len(makanan) + Len(individu) + Len(non_makanan)
             = Cardinality(ValidPositions)
        /\ \A i \in ValidPositions :
             LET k == komoditi_rows[i]
                 n == SeqNumber(k)
             IN  /\ n < 186 => k \in Range(makanan)
                 /\ (186 <= n /\ n <= 225) => k \in Range(individu)
                 /\ n >= 226 => k \in Range(non_makanan)

\* A split that put a line without sequence number into the food bucket, kept
\* an individual-food line and dropped a line with no value at all.
C2_Witness ==
    /\ pc = "split"
    /\ \E i \in DOMAIN makanan : makanan[i].NoUrutKomoditiFK = None
    /\ individu # << >>
    /\ Cardinality(ValidPositions) < Len(komoditi_rows)

\* The distinct non-empty person ids of the individual-food list.
PersonIds ==
    { individu[i].IDART[1] :
        i \in { j \in DOMAIN individu :
                  individu[j].IDART # None /\ individu[j].IDART[1] # << >> } }

FirstAppearance(id) ==
    CHOOSE i \in DOMAIN individu :
        /\ individu[i].IDART = Some(id)
        /\ \A j \in DOMAIN individu : individu[j].IDART = Some(id) => i <= j

\* C3: build_idart_map is a bijection from the distinct non-empty person ids
\* of the list onto 1..N, N their number, numbered in order of first
\* appearance; empty and absent ids get no number and use none up.
C3_IdartBijection ==
    pc = "mapped" =>
        LET N == Cardinality(PersonIds)
        IN  /\ DOMAIN idart_map = PersonIds
            /\ { idart_map[id] : id \in PersonIds } = 1 .. N
            /\ \A a, b \in PersonIds :
                 FirstAppearance(a) < FirstAppearance(b)
                    => idart_map[a] < idart_map[b]

\* A numbered list with two persons and a line that carries no person id.
C3_Witness ==
    /\ pc = "mapped"
    /\ Cardinality(PersonIds) = 2
    /\ idart_map[<< "A" >>] = 1
    /\ idart_map[<< "B" >>] = 2
    /\ \E i \in DOMAIN individu :
         individu[i].IDART = None \/ individu[i].IDART = Some(<< >>)

\* The person a line of the individual-food list belongs to: its id, the
\* empty string for an empty or absent one.
PersonOf(i) == IdartOrEmpty(individu[i])

\* The rows of the table that show a person number.
NumberedRows == { i \in DOMAIN individu_table : individu_table[i].ART # Placeholder }

\* C11: in the table of individual-food lines (split_komoditi, then
\* build_idart_map, then one row per line) the lines of one person are
\* contiguous; the lines with an empty or absent person id show "-" and come
\* before every numbered line; the person numbers read down the table start
\* at 1, never decrease and go up by exactly 1 where a new person starts; and
\* within one person the sequence numbers ascend.
C11_TableGroupedByPerson ==
    pc = "mapped" =>
        /\ DOMAIN individu_table = DOMAIN individu
        /\ \A i, j, k \in DOMAIN individu :
             (i < j /\ j < k /\ PersonOf(i) = PersonOf(k)) => PersonOf(j) = PersonOf(i)
        /\ \A i \in DOMAIN individu :
             IF PersonOf(i) = << >>
             THEN /\ individu_table[i].ART = Placeholder
                  /\ \A j \in NumberedRows : i < j
             ELSE /\ i \in NumberedRows
                  /\ individu_table[i].ART.text = ""
        /\ \A i \in NumberedRows :
             IF i - 1 \in NumberedRows
             THEN individu_table[i].ART.number
                    = individu_table[i - 1].ART.number
                        + (IF PersonOf(i) = PersonOf(i - 1) THEN 0 ELSE 1)
             ELSE individu_table[i].ART.number = 1
        /\ \A i, j \in DOMAIN individu :
             (i < j /\ PersonOf(i) = PersonOf(j))
                => /\ individu_table[i].NoUrut # None
                   /\ individu_table[j].NoUrut # None
                   /\ individu_table[i].NoUrut[1] <= individu_table[j].NoUrut[1]

\* A table of three rows whose lines were loaded in another order: two lines
\* of person 1 in ascending sequence number, then a line of person 2.
C11_Witness ==
    /\ pc = "mapped"
    /\ Len(individu_table) = 3
    /\ komoditi_rows # individu
    /\ individu_table[1].ART = Numbered(1)
    /\ individu_table[2].ART = Numbered(1)
    /\ individu_table[3].ART = Numbered(2)
    /\ individu_table[1].NoUrut[1] < individu_table[2].NoUrut[1]

-----------------------------------------------------------------------------
(* Blok rekap parser: classify_blok_key, parse_blok_data                   *)

Digits == { "0", "1", "2", "3", "4", "5", "6", "7", "8", "9" }

Upper == { "A", "B", "C", "D", "E", "F", "G", "H", "I", "J", "K", "L", "M",
           "N", "O", "P", "Q", "R", "S", "T", "U", "V", "W", "X", "Y", "Z" }

\* The character at index i of s, "" past its end.
At(s, i) == IF i \in DOMAIN s THEN s[i] ELSE ""

\* key[:n] and key[n:]
Prefix(s, n) == SubSeq(s, 1, IF n < Len(s) THEN n ELSE Len(s))

DropPrefix(s, n) == SubSeq(s, n + 1, Len(s))

\* The length of the run of digits that \d+ consumes from index i on (0: none).
DigitRun(s, i) ==
    CHOOSE n \in 0 .. Len(s) :
        /\ \A j \in i .. (i + n - 1) : At(s, j) \in Digits
        /\ At(s, i + n) \notin Digits

\* classify_blok_key: the blok of a field name, None when no pattern matches.
classify_blok_key(key) ==
    IF At(key, 1) = "B" /\ At(key, 2) = "4" /\ At(key, 3) = "3"
       /\ At(key, 4) \in { "1", "2", "3" }
    THEN Some(Prefix(key, 4))
    ELSE IF At(key, 1) = "B" /\ At(key, 2) = "5"
            /\ At(key, 3) \in { "A", "B", "C", "D", "E", "F", "G" }
            /\ At(key, 4) = "R"
    THEN Some(Prefix(key, 3))
    ELSE IF At(key, 1) = "B" /\ At(key, 2) = "5"
            /\ At(key, 3) \in { "A", "B", "C", "D", "E", "F", "G" }
            /\ At(key, 4) = "K"
    THEN Some(Prefix(key, 3))
    ELSE IF At(key, 1) = "B" /\ At(key, 2) = "6" /\ At(key, 3) = "R"
    THEN Some(<< "B", "6" >>)
    ELSE IF At(key, 1) = "B" /\ At(key, 2) = "7" /\ At(key, 3) = "R"
    THEN Some(<< "B", "7" >>)
    ELSE None

\* re.match(r"R(\d+[A-Z]?)K(\d+)", suffix): a match at the start of the suffix,
\* whatever follows it. \d+ takes the whole run of digits; [A-Z]? takes a
\* letter when K and a digit follow it, and nothing otherwise.
MatchRowCol(suffix) ==
    LET d == DigitRun(suffix, 2)
        k == IF At(suffix, d + 2) \in Upper /\ At(suffix, d + 3) = "K"
                /\ At(suffix, d + 4) \in Digits
             THEN d + 3
             ELSE IF At(suffix, d + 2) = "K" /\ At(suffix, d + 3) \in Digits
             THEN d + 2
             ELSE 0
    IN  IF At(suffix, 1) = "R" /\ d >= 1 /\ k > 0
        THEN Some([ row |-> SubSeq(suffix, 2, k - 1),
                    col |-> << "K" >> \o SubSeq(suffix, k + 1, k + DigitRun(suffix, k + 1)) ])
        ELSE None

\* re.match(r"R(\d+)$", suffix): $ is the end of the suffix, or the place
\* before a newline that ends it.
MatchRowOnly(suffix) ==
    LET d == DigitRun(suffix, 2)
    IN  IF /\ At(suffix, 1) = "R"
           /\ d >= 1
           /\ \/ Len(suffix) = d + 1
              \/ Len(suffix) = d + 2 /\ At(suffix, d + 2) = "\n"
        THEN Some([ row |-> SubSeq(suffix, 2, d + 1), col |-> << "K", "4" >> ])
        ELSE None

\* re.match(r"K(\d+)", suffix): a match at the start, whatever follows.
MatchColOnly(suffix) ==
    LET d == DigitRun(suffix, 2)
    IN  IF At(suffix, 1) = "K" /\ d >= 1
        THEN Some([ row |-> << "1" >>, col |-> << "K" >> \o SubSeq(suffix, 2, d + 1) ])
        ELSE None

\* The three patterns in the order the loop tries them; the first that
\* matches gives the cell, and `continue` skips the others.
Address(blok, key) ==
    LET suffix == DropPrefix(key, Len(blok))
    IN  IF MatchRowCol(suffix) # None THEN MatchRowCol(suffix)
        ELSE IF MatchRowOnly(suffix) # None THEN MatchRowOnly(suffix)
        ELSE MatchColOnly(suffix)

\* A dict of rows: the keys in insertion order, and row -> column -> value.
EmptyRows == [ order |-> << >>, cells |-> << >> ]

\* rows.setdefault(row, {})[col] = value
SetCell(rows, row, col, value) ==
    LET known == DOMAIN rows.cells
        old(r) == IF r \in known THEN rows.cells[r] ELSE << >>
    IN  [ order |-> IF row \in known THEN rows.order ELSE Append(rows.order, row),
          cells |-> [ r \in known \cup { row } |->
                        IF r = row
                        THEN [ c \in DOMAIN old(r) \cup { col } |->
                                 IF c = col THEN value ELSE old(r)[c] ]
                        ELSE old(r) ] ]

\* The loop over data.items() of one blok: rows after the fields of data.
RECURSIVE RowsAfter(_, _, _)
RowsAfter(rows, blok, data) ==
    IF data = << >> THEN rows
    ELSE LET key == Head(data)[1]
             value == Head(data)[2]
             a == Address(blok, key)
         IN  RowsAfter(IF a = None THEN rows
                       ELSE SetCell(rows, a[1].row, a[1].col, value),
                       blok, Tail(data))

\* blok_raw: the fields of the record that classify to blok, in record order.
BlokRaw(rec, blok) ==
    SelectSeq(rec, LAMBDA f : classify_blok_key(f[1]) = Some(blok))

BlokNames(rec) ==
    { classify_blok_key(rec[i][1])[1] :
        i \in { j \in DOMAIN rec : classify_blok_key(rec[j][1]) # None } }

\* A blok whose values are all None is skipped before its fields are parsed.
Parsed(rec) ==
    { b \in BlokNames(rec) :
        \E i \in DOMAIN BlokRaw(rec, b) : BlokRaw(rec, b)[i][2] # None }

\* parse_blok_data: blok -> rows, for the bloks that are not skipped and whose
\* rows dict is not empty.
parse_blok_data(rec) ==
    [ b \in { p \in Parsed(rec) :
                RowsAfter(EmptyRows, p, BlokRaw(rec, p)).order # << >> } |->
        RowsAfter(EmptyRows, b, BlokRaw(rec, b)) ]

\* The assignments rows.setdefault(row, {})[col] = value the loop makes, as
\* << field name, blok, row, column >>.
Assignments(rec) ==
    { << rec[i][1], b, Address(b, rec[i][1])[1].row, Address(b, rec[i][1])[1].col >> :
        << b, i >> \in { q \in Parsed(rec) \X (DOMAIN rec) :
                           /\ classify_blok_key(rec[q[2]][1]) = Some(q[1])
                           /\ Address(q[1], rec[q[2]][1]) # None } }

-----------------------------------------------------------------------------
(* Row ordering: sort_rows, render_blok_rekap_table                        *)

SUB_ROW_BLOKS == { << "B", "5", "E" >>, << "B", "5", "G" >> }

SUB_ROWS == { << "1", "1" >>, << "1", "2" >>, << "1", "3" >>,
              << "1", "4" >>, << "1", "5" >> }

\* int() of a string of digits.
RECURSIVE DigitsValue(_)
DigitsValue(s) ==
    IF s = << >> THEN 0
    ELSE 10 * DigitsValue(SubSeq(s, 1, Len(s) - 1)) + (CharCode(s[Len(s)]) - CharCode("0"))

\* re.match(r"(\d+)", r): the leading integer of a row key, 0 without one.
LeadingInt(r) == DigitsValue(SubSeq(r, 1, DigitRun(r, 1)))

\* A slip: the sub-rows of B5E/B5G sorted as the plain numbers 11..15.
sort_key_plain(blok, r) == 10 * LeadingInt(r)

\* sort_key, in tenths: float(num) is 10 * num, and 1.0 + (num - 10) / 10.0
\* is 10 + (num - 10).
sort_key(blok, r) ==
    IF blok \in SUB_ROW_BLOKS /\ r \in SUB_ROWS
    THEN 10 + (LeadingInt(r) - 10)
    ELSE 10 * LeadingInt(r)

\* sorted(row_keys, key=sort_key)
sort_rows(blok, row_keys) ==
    StableSort(row_keys, { q \in (DOMAIN row_keys) \X (DOMAIN row_keys) :
                             sort_key(blok, row_keys[q[1]]) < sort_key(blok, row_keys[q[2]]) })

\* The bloks <module> passes to render_blok_rekap_table: B43x, B5C..B5G, B6, B7.
IsRendered(bk) ==
    \/ Prefix(bk, 3) = << "B", "4", "3" >>
    \/ Len(bk) = 3 /\ Prefix(bk, 2) = << "B", "5" >>
         /\ bk[3] \in { "C", "D", "E", "F", "G" }
    \/ bk \in { << "B", "6" >>, << "B", "7" >> }

\* The field names and values the model draws a flat record from.
FieldSamples ==
    { << "B", "4", "3", "2", "R", "1", "K", "3" >>,
      << "B", "4", "3", "2", "X" >>,
      << "B", "5", "A", "K", "5", "J" >>,
      << "B", "5", "A", "K", "5" >>,
      << "B", "5", "A", "K", "5", "X" >>,
      << "B", "5", "E", "R", "1", "A", "K", "2" >>,
      << "B", "6", "R", "8" >>,
      << "B", "6", "R", "8", "X" >>,
      << "K", "a", "b" >> }

ValueSamples == { None, Some(1), Some(2) }

\* The fields of the rows of B5E (a blok with sub-rows) and of B6 (without).
RowFieldSamples ==
    { << "B", "5", "E", "R", "1", "K", "2" >>,
      << "B", "5", "E", "R", "1", "A", "K", "2" >>,
      << "B", "5", "E", "R", "2", "K", "2" >>,
      << "B", "5", "E", "R", "1", "1", "K", "2" >>,
      << "B", "5", "E", "R", "1", "3", "K", "2" >>,
      << "B", "5", "E", "R", "1", "6", "K", "2" >>,
      << "B", "6", "R", "2" >>,
      << "B", "6", "R", "1", "1" >> }

\* A dict of at most n fields: no field name twice.
Records(names, values, n) ==
    { r \in SeqsUpTo(names \X values, n) :
        \A i, j \in DOMAIN r : r[i][1] = r[j][1] => i = j }

InitBlok ==
    /\ pc = "loaded"
    /\ IdleKomoditi
    /\ IdleFmt
    /\ IdleView
    /\ rekap \in Records(FieldSamples, ValueSamples, MaxFields)
    /\ blok_tables = << >>
    /\ assigned = { }
    /\ blok_name = << >>
    /\ sorted_row_nums = << >>

InitRows ==
    /\ pc = "loaded"
    /\ IdleKomoditi
    /\ IdleFmt
    /\ IdleView
    /\ rekap \in Records(RowFieldSamples, { Some(1) }, MaxRowFields)
    /\ blok_tables = << >>
    /\ assigned = { }
    /\ blok_name = << >>
    /\ sorted_row_nums = << >>

\* blok_tables = parse_blok_data(rekap)
ParseBlokData ==
    /\ pc = "loaded"
    /\ rekap # << >>
    /\ blok_tables' = parse_blok_data(rekap)
    /\ assigned' = Assignments(rekap)
    /\ pc' = "parsed"
    /\ UNCHANGED << rekap, blok_name, sorted_row_nums, komoditiVars, fmtVars, viewVars >>

\* render_blok_rekap_table(bk, blok_tables[bk]) for one of the bloks shown:
\* sorted_row_nums = sort_rows(blok_name, list(rows_dict.keys()))
RenderBlokRekapTable ==
    /\ pc = "parsed"
    /\ \E bk \in DOMAIN blok_tables :
         /\ IsRendered(bk)
         /\ blok_name' = bk
         /\ sorted_row_nums' = sort_rows(bk, blok_tables[bk].order)
    /\ pc' = "rendered"
    /\ UNCHANGED << rekap, blok_tables, assigned, komoditiVars, fmtVars, viewVars >>

NextBlok == ParseBlokData \/ RenderBlokRekapTable

SpecBlok == InitBlok /\ [][NextBlok]_vars

SpecRows == InitRows /\ [][NextBlok]_vars

-----------------------------------------------------------------------------
(* Properties of the blok rekap parser                                     *)

\* C1: every blok in the result of parse_blok_data maps to a non-empty row
\* table, and every such row table holds at least one cell that is not None;
\* a blok none of whose parsed cells is non-absent is not in the result.
C1_SectionsHaveValue ==
    pc \in { "parsed", "rendered" } =>
        \A b \in DOMAIN blok_tables :
            /\ blok_tables[b].order # << >>
            /\ \E r \in DOMAIN blok_tables[b].cells :
                 \E c \in DOMAIN blok_tables[b].cells[r] :
                    blok_tables[b].cells[r][c] # None

\* The mapping blok -> row -> column -> value of a result, without the order
\* of the dict keys.
Mapping(tables) == [ b \in DOMAIN tables |-> tables[b].cells ]

\* The same fields visited in every order.
Reorderings(rec) ==
    { [ i \in DOMAIN rec |-> rec[p[i]] ] : p \in Permutations(DOMAIN rec) }

\* C4: the table built by parse_blok_data does not depend on the order in
\* which the fields of the record are visited: every permutation of the
\* fields gives the same blok -> row -> column -> value mapping, and no field
\* contributes a cell to more than one row.
C4_OrderIndependent ==
    pc \in { "parsed", "rendered" } =>
        /\ \A other \in Reorderings(rekap) :
             Mapping(parse_blok_data(other)) = Mapping(blok_tables)
        /\ \A a, b \in assigned : a[1] = b[1] => a[3] = b[3]

\* The three forms of a suffix, each as the whole suffix.
\* R<rowNum><optional letter>K<colNum>, with the row and column it names
IsRowColForm(suffix, row, col) ==
    \E letter \in 0 .. 1 :
        LET d == DigitRun(suffix, 2)
            c == DigitRun(suffix, d + letter + 3)
        IN  /\ At(suffix, 1) = "R"
            /\ d >= 1
            /\ letter = 1 => At(suffix, d + 2) \in Upper
            /\ At(suffix, d + letter + 2) = "K"
            /\ c >= 1
            /\ Len(suffix) = d + letter + 2 + c
            /\ row = SubSeq(suffix, 2, d + letter + 1)
            /\ col = << "K" >> \o SubSeq(suffix, d + letter + 3, Len(suffix))

\* R<rowNum> alone: that row, column K4
IsRowOnlyForm(suffix, row, col) ==
    /\ At(suffix, 1) = "R"
    /\ DigitRun(suffix, 2) >= 1
    /\ Len(suffix) = DigitRun(suffix, 2) + 1
    /\ row = SubSeq(suffix, 2, Len(suffix))
    /\ col = << "K", "4" >>

\* K<colNum><optional trailing J>: row "1", that column
IsColOnlyForm(suffix, row, col) ==
    LET c == DigitRun(suffix, 2)
    IN  /\ At(suffix, 1) = "K"
        /\ c >= 1
        /\ \/ Len(suffix) = c + 1
           \/ Len(suffix) = c + 2 /\ At(suffix, c + 2) = "J"
        /\ row = << "1" >>
        /\ col = << "K" >> \o SubSeq(suffix, 2, c + 1)

\* C5: a field of a recognized blok contributes a cell only when its suffix
\* (the name without the blok id) is R<rowNum><optional letter>K<colNum>,
\* R<rowNum> alone or K<colNum><optional trailing J>, and then the cell is the
\* one that form names; a field of any other suffix contributes no cell.
C5_OnlyThreeForms ==
    \A a \in assigned :
        LET suffix == DropPrefix(a[1], Len(a[2]))
        IN  \/ IsRowColForm(suffix, a[3], a[4])
            \/ IsRowOnlyForm(suffix, a[3], a[4])
            \/ IsColOnlyForm(suffix, a[3], a[4])

-----------------------------------------------------------------------------
(* Properties of the row ordering                                          *)

HasSubRows == blok_name \in { << "B", "5", "E" >>, << "B", "5", "G" >> }

IsSubRow(r) ==
    r \in { << "1", "1" >>, << "1", "2" >>, << "1", "3" >>, << "1", "4" >>, << "1", "5" >> }

\* Positions of the sub-rows 11..15 in the display order.
SubPositions == { i \in DOMAIN sorted_row_nums : IsSubRow(sorted_row_nums[i]) }

PositionOf(r, s) == CHOOSE i \in DOMAIN s : s[i] = r

\* The parts of C6 that do not speak of row "1": the sub-rows ascend, they come
\* before row "2", and the other row keys are ordered by their leading integer.
SubRowsAscendBeforeTwo ==
    /\ \A i, j \in SubPositions :
         i < j => LeadingInt(sorted_row_nums[i]) < LeadingInt(sorted_row_nums[j])
    /\ \A i \in SubPositions, q \in DOMAIN sorted_row_nums :
         sorted_row_nums[q] = << "2" >> => i < q
    /\ \A i, j \in DOMAIN sorted_row_nums \ SubPositions :
         i < j => LeadingInt(sorted_row_nums[i]) <= LeadingInt(sorted_row_nums[j])

\* C6 as stated: in a blok with sub-rows (B5E, B5G) the row keys "11".."15"
\* that are present stand immediately after row "1" and before row "2", in
\* ascending numeric order; every other row key is ordered by its leading
\* integer.
C6_SubRowsRightAfterRowOne ==
    (pc = "rendered" /\ HasSubRows) =>
        /\ SubRowsAscendBeforeTwo
        /\ << "1" >> \in Range(sorted_row_nums) =>
             LET p == PositionOf(<< "1" >>, sorted_row_nums)
             IN  SubPositions = (p + 1) .. (p + Cardinality(SubPositions))

\* The row keys with leading integer 1 that were supplied after row "1".
SuppliedAfterRowOne ==
    LET supplied == blok_tables[blok_name].order
    IN  { supplied[i] :
            i \in { j \in DOMAIN supplied :
                      /\ ~IsSubRow(supplied[j])
                      /\ LeadingInt(supplied[j]) = 1
                      /\ j > PositionOf(<< "1" >>, supplied) } }

\* C6 as amended: the sub-rows present form one ascending block after every
\* row key whose leading integer is at most 1 and before every row key whose
\* leading integer is 2 or more; between row "1" and the block stand exactly
\* the row keys of leading integer 1 that were supplied after "1" (none: the
\* block follows "1" immediately); the other row keys are ordered by their
\* leading integer.
C6_SubRowsAfterLeadingOne ==
    (pc = "rendered" /\ HasSubRows) =>
        /\ SubRowsAscendBeforeTwo
        /\ \A i \in SubPositions, q \in DOMAIN sorted_row_nums \ SubPositions :
             /\ q < i => LeadingInt(sorted_row_nums[q]) <= 1
             /\ q > i => LeadingInt(sorted_row_nums[q]) >= 2
        /\ (<< "1" >> \in Range(sorted_row_nums) /\ SubPositions # { }) =>
             LET p == PositionOf(<< "1" >>, sorted_row_nums)
             IN  { sorted_row_nums[q] :
                     q \in { k \in DOMAIN sorted_row_nums :
                               p < k /\ \A i \in SubPositions : k < i } }
                   = SuppliedAfterRowOne

\* The rows {"1", "2", "11", "13"} of B5E in display order.
C6_Witness ==
    /\ pc = "rendered"
    /\ blok_name = << "B", "5", "E" >>
    /\ sorted_row_nums = << << "1" >>, << "1", "1" >>, << "1", "3" >>, << "2" >> >>

\* C7: the display order of sort_rows is a function of the blok and the set of
\* row keys (keys with a trailing letter such as "1A" included): it is the
\* same whatever order the keys are supplied in.
C7_SupplyOrderIrrelevant ==
    pc = "rendered" =>
        \A other \in Reorderings(blok_tables[blok_name].order) :
            sort_rows(blok_name, other) = sorted_row_nums

-----------------------------------------------------------------------------
(* Formatting helpers: fmt_currency, fmt_number, val_or_dash               *)

\* Python values as the formatters see them. A number is a sign and a
\* magnitude: an int counts units, a float counts hundredths (money has at
\* most two decimals), and a float may instead be inf or nan (`special`).
Inf == << "i", "n", "f" >>

NaN == << "n", "a", "n" >>

PyNone == [ type |-> "NoneType", neg |-> FALSE, mag |-> 0, special |-> << >>, chars |-> << >> ]

PyInt(n) ==
    [ type |-> "int", neg |-> n < 0, mag |-> IF n < 0 THEN -n ELSE n,
      special |-> << >>, chars |-> << >> ]

PyFloat(neg, hundredths) ==
    [ type |-> "float", neg |-> neg, mag |-> hundredths, special |-> << >>, chars |-> << >> ]

PyInf(neg) == [ type |-> "float", neg |-> neg, mag |-> 0, special |-> Inf, chars |-> << >> ]

PyNaN == [ type |-> "float", neg |-> FALSE, mag |-> 0, special |-> NaN, chars |-> << >> ]

PyStr(chars) == [ type |-> "str", neg |-> FALSE, mag |-> 0, special |-> << >>, chars |-> chars ]

PyList == [ type |-> "list", neg |-> FALSE, mag |-> 0, special |-> << >>, chars |-> << >> ]

\* What a call comes to: the string it returns, or the exception it raises.
Returns(text) == [ raises |-> "", text |-> text ]

Raises(exception) == [ raises |-> exception, text |-> << >> ]

DigitChar(n) == CHOOSE c \in Digits : CharCode(c) = CharCode("0") + n

\* The decimal digits of a natural number.
RECURSIVE NatChars(_)
NatChars(n) ==
    IF n < 10 THEN << DigitChar(n) >>
    ELSE NatChars(n \div 10) \o << DigitChar(n % 10) >>

\* The "," of a format spec: a comma before every group of three digits.
RECURSIVE Grouped(_)
Grouped(digits) ==
    IF Len(digits) <= 3 THEN digits
    ELSE Grouped(SubSeq(digits, 1, Len(digits) - 3))
         \o << "," >> \o SubSeq(digits, Len(digits) - 2, Len(digits))

Sign(neg) == IF neg THEN << "-" >> ELSE << >>

\* A float of the model: finite (hundredths), inf or nan.
Float(neg, mag, special) ==
    [ raises |-> "", neg |-> neg /\ special # NaN, mag |-> mag, special |-> special ]

NoFloat(exception) == [ raises |-> exception, neg |-> FALSE, mag |-> 0, special |-> << >> ]

\* float(str): an optional sign, then inf, nan, or digits with an optional
\* point and at most two decimals; anything else is a ValueError. (Exponents,
\* blanks, underscores and longer fractions are outside the model.)
ParseFloat(chars) ==
    LET signed == At(chars, 1) \in { "-", "+" }
        body == IF signed THEN Tail(chars) ELSE chars
        neg == At(chars, 1) = "-"
        d == DigitRun(body, 1)
        f == DigitRun(body, d + 2)
        whole == DigitsValue(SubSeq(body, 1, d))
        frac == DigitsValue(SubSeq(body, d + 2, d + 1 + f))
    IN  IF body \in { Inf, NaN } THEN Float(neg, 0, body)
        ELSE IF d >= 1 /\ Len(body) = d THEN Float(neg, 100 * whole, << >>)
        ELSE IF At(body, d + 1) = "." /\ d + f >= 1 /\ f <= 2 /\ Len(body) = d + 1 + f
        THEN Float(neg, 100 * whole + (IF f = 1 THEN 10 * frac ELSE frac), << >>)
        ELSE NoFloat("ValueError")

\* float(val)
ToFloat(v) ==
    CASE v.type = "int" -> Float(v.neg, 100 * v.mag, << >>)
      [] v.type = "float" -> Float(v.neg, v.mag, v.special)
      [] v.type = "str" -> ParseFloat(v.chars)
      [] OTHER -> NoFloat("TypeError")

\* f"{x:,.0f}": rounded to the nearest integer, a half to the even one.
FormatNoDecimals(x) ==
    LET q == x.mag \div 100
        r == x.mag % 100
        rounded == IF r > 50 \/ (r = 50 /\ q % 2 = 1) THEN q + 1 ELSE q
    IN  IF x.special # << >> THEN Sign(x.neg) \o x.special
        ELSE Sign(x.neg) \o Grouped(NatChars(rounded))

\* f"{x:,.2f}"
FormatTwoDecimals(x) ==
    IF x.special # << >> THEN Sign(x.neg) \o x.special
    ELSE Sign(x.neg) \o Grouped(NatChars(x.mag \div 100))
         \o << ".", DigitChar((x.mag % 100) \div 10), DigitChar(x.mag % 10) >>

\* str(val): an int as its digits, a float as its shortest repr (at least
\* one decimal), a string as itself, the empty list as "[]".
Str(v) ==
    CASE v.type = "NoneType" -> << "N", "o", "n", "e" >>
      [] v.type = "int" -> Sign(v.neg) \o NatChars(v.mag)
      [] v.type = "float" ->
            IF v.special # << >> THEN Sign(v.neg) \o v.special
            ELSE Sign(v.neg) \o NatChars(v.mag \div 100) \o << ".", DigitChar((v.mag % 100) \div 10) >>
                 \o (IF v.mag % 10 = 0 THEN << >> ELSE << DigitChar(v.mag % 10) >>)
      [] v.type = "str" -> v.chars
      [] OTHER -> << "[", "]" >>

\* except (TypeError, ValueError): any other exception leaves the function.
Caught(exception) == exception \in { "TypeError", "ValueError" }

fmt_currency(v) ==
    IF v = PyNone THEN Returns(<< "-" >>)
    ELSE LET x == ToFloat(v)
         IN  IF x.raises # ""
             THEN (IF Caught(x.raises) THEN Returns(Str(v)) ELSE Raises(x.raises))
             ELSE Returns(FormatNoDecimals(x))

\* int(v) of `v == int(v)`: OverflowError for an infinity, ValueError for nan.
IntOf(x) ==
    IF x.special = Inf THEN "OverflowError"
    ELSE IF x.special = NaN THEN "ValueError"
    ELSE ""

fmt_number(v) ==
    IF v = PyNone THEN Returns(<< "-" >>)
    ELSE LET x == ToFloat(v)
             failed == IF x.raises # "" THEN x.raises ELSE IntOf(x)
         IN  IF failed # ""
             THEN (IF Caught(failed) THEN Returns(Str(v)) ELSE Raises(failed))
             ELSE IF x.mag % 100 = 0 THEN Returns(FormatNoDecimals(x))
             ELSE Returns(FormatTwoDecimals(x))

val_or_dash(v) ==
    IF v = PyNone \/ v = PyStr(<< >>) THEN Returns(<< "-" >>) ELSE Returns(Str(v))

\* The arguments the model calls the formatters with.
IntSamples == { 0, 7, -7, 999, 1000, -1000, 1234567 }

HundredthsSamples == { 0, 5, 25, 50, 150, 250, 300, 350, 99950, 123450, 123456725 }

StrSamples ==
    { << "1", "2" >>, << "-", "7" >>, << "1", "2", "3", "4", ".", "5" >>,
      << "0", ".", "2", "5" >>, << ".", "5" >>, << "-", "0" >>, << >>,
      << "a", "b", "c" >>, << "1", "2", "a" >>, << "1", ".", "5", ".", "2" >>,
      Inf, << "-" >> \o Inf, NaN }

ValSamples ==
    { PyNone, PyList, PyNaN, PyInf(FALSE), PyInf(TRUE) }
    \cup { PyInt(n) : n \in IntSamples }
    \cup { PyFloat(neg, h) : neg \in BOOLEAN, h \in HundredthsSamples }
    \cup { PyStr(c) : c \in StrSamples }

InitFmt ==
    /\ pc = "value"
    /\ IdleKomoditi
    /\ IdleBlok
    /\ IdleView
    /\ val \in ValSamples
    /\ shown = << >>

FmtCurrency ==
    /\ pc = "value"
    /\ shown' = << "fmt_currency", fmt_currency(val) >>
    /\ pc' = "formatted"
    /\ UNCHANGED << val, komoditiVars, blokVars, viewVars >>

FmtNumber ==
    /\ pc = "value"
    /\ shown' = << "fmt_number", fmt_number(val) >>
    /\ pc' = "formatted"
    /\ UNCHANGED << val, komoditiVars, blokVars, viewVars >>

ValOrDash ==
    /\ pc = "value"
    /\ shown' = << "val_or_dash", val_or_dash(val) >>
    /\ pc' = "formatted"
    /\ UNCHANGED << val, komoditiVars, blokVars, viewVars >>

NextFmt == FmtCurrency \/ FmtNumber \/ ValOrDash

SpecFmt == InitFmt /\ [][NextFmt]_vars

-----------------------------------------------------------------------------
(* Properties of the formatting helpers                                    *)

\* C9: fmt_currency, fmt_number and val_or_dash are total: for every value
\* (absent, whole number, fractional number, infinite or not-a-number,
\* numeric string, non-numeric string, other object) the call returns a
\* display string and raises nothing; absent gives "-", and a string that
\* does not parse as a number comes back unchanged.
C9_FormattersTotal ==
    pc = "formatted" =>
        /\ shown[2].raises = ""
        /\ val = PyNone => shown[2].text = << "-" >>
        /\ (val.type = "str" /\ val.chars # << >> /\ ParseFloat(val.chars).raises # "")
              => shown[2].text = val.chars

-----------------------------------------------------------------------------
(* DB helpers and the selection cascade: load_rekap, <module>              *)

ColKab == << "K", "a", "b" >>

ColProp == << "P", "r", "o", "p" >>

ColNKS == << "N", "K", "S" >>

ColNurt == << "N", "u", "r", "t" >>

ColDataJson == << "d", "a", "t", "a", "_", "j", "s", "o", "n" >>

\* A row of table rekap, and dict(row): column -> value in column order.
RekapRow(kab, prop, nks, nurt, data_json) ==
    << << ColKab, kab >>, << ColProp, prop >>, << ColNKS, nks >>,
       << ColNurt, nurt >>, << ColDataJson, data_json >> >>

\* rekap.get(key) / row[key]
Get(rec, key) ==
    LET at == { i \in DOMAIN rec : rec[i][1] = key }
    IN  IF at = { } THEN None ELSE rec[CHOOSE i \in at : TRUE][2]

\* rekap[key] = value
SetItem(rec, key, value) ==
    IF \E i \in DOMAIN rec : rec[i][1] = key
    THEN [ i \in DOMAIN rec |-> IF rec[i][1] = key THEN << key, value >> ELSE rec[i] ]
    ELSE Append(rec, << key, value >>)

\* The truth value of a selected key (an optional number): None and 0 are false.
Truthy(x) == x # None /\ x[1] # 0

\* What column data_json can hold: the SQL type of the value and its content.
Payload(column, content) == [ column |-> column, content |-> content ]

PayloadSamples ==
    { Payload("TEXT", ""),
      Payload("TEXT", "{\"B6R8\": 5}"),
      Payload("TEXT", "{bad"),
      Payload("TEXT", "[1, 2]"),
      Payload("TEXT", "\"ab\""),
      Payload("BLOB", "\\xff"),
      Payload("INTEGER", "5") }

\* rekap.get("data_json") as a condition: NULL and the empty string are false.
PayloadTruthy(data_json) == data_json # None /\ data_json[1].content # ""

\* json.loads on the payloads of the model: the exception it raises, or the
\* kind of value it returns. An int is not str or bytes (TypeError); bytes
\* that are not UTF-8 fail to decode before any JSON is read
\* (UnicodeDecodeError, a ValueError that is not a JSONDecodeError).
json_loads(p) ==
    CASE p.column = "INTEGER" -> [ raises |-> "TypeError", value |-> "" ]
      [] p.column = "BLOB" -> [ raises |-> "UnicodeDecodeError", value |-> "" ]
      [] p.content = "{\"B6R8\": 5}" -> [ raises |-> "", value |-> "dict" ]
      [] p.content = "[1, 2]" -> [ raises |-> "", value |-> "list" ]
      [] p.content = "\"ab\"" -> [ raises |-> "", value |-> "str" ]
      [] OTHER -> [ raises |-> "JSONDecodeError", value |-> "" ]

\* rekap.update(value): a dict adds its items; the list [1, 2] is no sequence
\* of pairs (TypeError: element 0 is not a sequence); the string "ab" gives
\* elements of length 1 (ValueError: 2 is required).
dict_update(rec, value) ==
    CASE value = "dict" ->
            [ raises |-> "", rekap |-> SetItem(rec, << "B", "6", "R", "8" >>, Some(5)) ]
      [] value = "list" -> [ raises |-> "TypeError", rekap |-> rec ]
      [] OTHER -> [ raises |-> "ValueError", rekap |-> rec ]

\* except (json.JSONDecodeError, TypeError): pass
Swallowed(exception) == exception \in { "JSONDecodeError", "TypeError" }

\* WHERE Kab = ? AND NKS = ? AND Nurt = ?: a NULL column equals nothing.
Matches(row, kab, nks, nurt) ==
    /\ Get(row, ColKab) # None /\ Get(row, ColKab) = kab
    /\ Get(row, ColNKS) # None /\ Get(row, ColNKS) = nks
    /\ Get(row, ColNurt) # None /\ Get(row, ColNurt) = nurt

\* load_rekap: the record (value), None for no row, or the exception that
\* leaves the function.
load_rekap(rows, kab, nks, nurt) ==
    LET found == SelectSeq(rows, LAMBDA r : Matches(r, kab, nks, nurt))
        row == found[1]
        data_json == Get(row, ColDataJson)
        loaded == json_loads(data_json[1])
        updated == dict_update(row, loaded.value)
    IN  IF found = << >> THEN [ raises |-> "", value |-> None ]
        ELSE IF ~PayloadTruthy(data_json) THEN [ raises |-> "", value |-> Some(row) ]
        ELSE IF loaded.raises # ""
        THEN (IF Swallowed(loaded.raises)
              THEN [ raises |-> "", value |-> Some(row) ]
              ELSE [ raises |-> loaded.raises, value |-> None ])
        ELSE IF updated.raises # ""
        THEN (IF Swallowed(updated.raises)
              THEN [ raises |-> "", value |-> Some(updated.rekap) ]
              ELSE [ raises |-> updated.raises, value |-> None ])
        ELSE [ raises |-> "", value |-> Some(updated.rekap) ]

\* ORDER BY on optional numbers: NULL first, then ascending.
OptLess(a, b) == (a = None /\ b # None) \/ (a # None /\ b # None /\ a[1] < b[1])

\* SELECT DISTINCT ... ORDER BY: the values of a set as a sorted list.
Ordered(S) ==
    CHOOSE s \in [ 1 .. Cardinality(S) -> S ] :
        \A i, j \in 1 .. Cardinality(S) : i < j => OptLess(s[i], s[j])

\* SELECT DISTINCT Kab, Prop ... WHERE Kab IS NOT NULL: the Kab values of
\* kab_options (the label of an option, which shows Prop, selects nothing).
KabOptions(rows) ==
    { Get(rows[i], ColKab) : i \in DOMAIN rows } \ { None }

\* SELECT DISTINCT NKS FROM rekap WHERE Kab = ? ORDER BY NKS
NksList(rows, kab) ==
    Ordered({ Get(rows[i], ColNKS) :
                i \in { j \in DOMAIN rows : Get(rows[j], ColKab) = kab } })

\* SELECT DISTINCT Nurt FROM rekap WHERE Kab = ? AND NKS = ? ORDER BY Nurt
NurtList(rows, kab, nks) ==
    Ordered({ Get(rows[i], ColNurt) :
                i \in { j \in DOMAIN rows :
                          /\ Get(rows[j], ColKab) = kab
                          /\ Get(rows[j], ColNKS) # None
                          /\ Get(rows[j], ColNKS) = nks } })

\* st.selectbox: one of the options, None when there is none.
Selectable(options) == IF options = { } THEN { None } ELSE options

\* The rows the model fills table rekap with.
RowSamples ==
    { RekapRow(kab, prop, nks, nurt, dj) :
        kab \in { None, Some(1) }, prop \in { None, Some(94) },
        nks \in { None, Some(1) }, nurt \in { None, Some(0), Some(1) },
        dj \in { None } \cup { Some(p) : p \in PayloadSamples } }

InitView ==
    /\ pc = "start"
    /\ IdleKomoditi
    /\ IdleBlok
    /\ IdleFmt
    /\ storage \in SeqsUpTo(RowSamples, MaxRecords)
    /\ selected_kab = << >>
    /\ nks_list = << >>
    /\ selected_nks = << >>
    /\ nurt_list = << >>
    /\ selected_nurt = << >>
    /\ view = ""

\* selected_kab = kab_options.get(selected_kab_display)
SelectKab ==
    /\ pc = "start"
    /\ selected_kab' \in Selectable(KabOptions(storage))
    /\ pc' = "kab"
    /\ UNCHANGED << storage, nks_list, selected_nks, nurt_list, selected_nurt, view,
                    komoditiVars, blokVars, fmtVars >>

\* nks_list and selected_nks
SelectNks ==
    /\ pc = "kab"
    /\ nks_list' = IF Truthy(selected_kab) THEN NksList(storage, selected_kab) ELSE << >>
    /\ selected_nks' \in Selectable(Range(nks_list'))
    /\ pc' = "nks"
    /\ UNCHANGED << storage, selected_kab, nurt_list, selected_nurt, view,
                    komoditiVars, blokVars, fmtVars >>

\* nurt_list and selected_nurt
SelectNurt ==
    /\ pc = "nks"
    /\ nurt_list' = IF Truthy(selected_kab) /\ Truthy(selected_nks)
                    THEN NurtList(storage, selected_kab, selected_nks) ELSE << >>
    /\ selected_nurt' \in Selectable(Range(nurt_list'))
    /\ pc' = "nurt"
    /\ UNCHANGED << storage, selected_kab, nks_list, selected_nks, view,
                    komoditiVars, blokVars, fmtVars >>

\* if not (selected_kab and selected_nks and selected_nurt): st.info; st.stop()
IncompleteSelection ==
    /\ pc = "nurt"
    /\ ~(Truthy(selected_kab) /\ Truthy(selected_nks) /\ Truthy(selected_nurt))
    /\ view' = "incomplete"
    /\ pc' = "stopped"
    /\ UNCHANGED << storage, selected_kab, nks_list, selected_nks, nurt_list,
                    selected_nurt, komoditiVars, blokVars, fmtVars >>

\* rekap = load_rekap(...); if not rekap: st.error("Data tidak ditemukan.");
\* st.stop(). An exception that leaves load_rekap ends the run.
LoadRekap ==
    /\ pc = "nurt"
    /\ Truthy(selected_kab) /\ Truthy(selected_nks) /\ Truthy(selected_nurt)
    /\ LET r == load_rekap(storage, selected_kab, selected_nks, selected_nurt)
       IN  IF r.raises # ""
           THEN view' = "exception" /\ pc' = "stopped" /\ UNCHANGED rekap
           ELSE IF r.value = None \/ r.value[1] = << >>
           THEN view' = "not_found" /\ pc' = "stopped" /\ UNCHANGED rekap
           ELSE view' = "loading" /\ pc' = "found" /\ rekap' = r.value[1]
    /\ UNCHANGED << storage, selected_kab, nks_list, selected_nks, nurt_list,
                    selected_nurt, blok_tables, assigned, blok_name, sorted_row_nums,
                    komoditiVars, fmtVars >>

\* The rest of the script: the sections of the record are rendered.
RenderPage ==
    /\ pc = "found"
    /\ view' = "rendered"
    /\ pc' = "stopped"
    /\ UNCHANGED << storage, selected_kab, nks_list, selected_nks, nurt_list,
                    selected_nurt, komoditiVars, blokVars, fmtVars >>

NextView ==
    \/ SelectKab
    \/ SelectNks
    \/ SelectNurt
    \/ IncompleteSelection
    \/ LoadRekap
    \/ RenderPage

SpecView == InitView /\ [][NextView]_vars

-----------------------------------------------------------------------------
(* Claims about load_rekap and the selection cascade                       *)

BaseColumns == { ColKab, ColProp, ColNKS, ColNurt, ColDataJson }

\* The rows of storage the selection names, as load_rekap's query finds them.
MatchedRows ==
    SelectSeq(storage, LAMBDA r : Matches(r, selected_kab, selected_nks, selected_nurt))

\* load_rekap has been called for the selection.
LoadAttempted == view \in { "loading", "rendered", "exception", "not_found" }

\* The payload of a row is present and json.loads cannot decode it.
PayloadCorrupt(row) ==
    /\ PayloadTruthy(Get(row, ColDataJson))
    /\ json_loads(Get(row, ColDataJson)[1]).raises # ""

\* C8: when the record load_rekap reads carries a data_json payload that
\* cannot be decoded, load_rekap does not fail and returns the record with
\* every base field holding the value read from storage.
C8_CorruptPayloadSwallowed ==
    (LoadAttempted /\ MatchedRows # << >> /\ PayloadCorrupt(MatchedRows[1])) =>
        /\ view # "exception"
        /\ \A col \in BaseColumns : Get(rekap, col) = Get(MatchedRows[1], col)

\* The dropdowns offered the selection: each selected key is an entry of the
\* list its dropdown showed.
Offered ==
    /\ selected_kab \in KabOptions(storage)
    /\ selected_nks \in Range(nks_list)
    /\ selected_nurt \in Range(nurt_list)

\* C10: for every selection the dropdowns offer, the run ends with the
\* record rendered when storage has a record for the selection, and with the
\* not-found result when it has none; a stored record is never reported as
\* not found or as an incomplete selection.
C10_FoundOrNotFound ==
    (pc = "stopped" /\ Offered) =>
        IF MatchedRows # << >> THEN view = "rendered" ELSE view = "not_found"

=============================================================================
